---- MODULE Spec2Model ----
(***************************************************************************)
(* Change detection and notification dispatch of the KV.ee Telegram bot    *)
(* (telegram_bot.py): the fetch cycle, the three scheduled triggers, the   *)
(* on-demand /notify check, the per-listing and summary dispatch loops,    *)
(* and the registry commands that run between their await points.          *)
(*                                                                         *)
(* One asyncio event loop runs everything: a coroutine runs without        *)
(* interruption from one await to the next, so every action below is the   *)
(* code between two awaits of one coroutine.                               *)
(*                                                                         *)
(* Further specifications over the same variables: SpecRestart (the bot    *)
(* with a process restart), SpecGrow (many fetch cycles), SpecDb (the      *)
(* seen-set store of database.py), SpecReg (the subscriber registry of     *)
(* database.py) and SpecFilter (_filter_listings alone).                   *)
(***************************************************************************)
EXTENDS Integers, Sequences, FiniteSets, Bags, TLC

VARIABLES
    entries,        \* TelegramBot.users: the dict's entry array, in insertion order
    seen_listings,  \* TelegramBot.seen_listings
    users_json,     \* the users.json document
    now,            \* datetime.now(), as a count of the stamps taken so far
    task,           \* per coroutine: its position and its local variables
    sentCount,      \* history: how many messages about a listing id a chat was sent
    retCount,       \* history: how many fetch cycles returned a listing id as new
    failures,       \* history: how many bot.send_message calls have failed
    commands,       \* history: how many registry commands have been handled
    cycles,         \* history: how many fetch cycles have been started
    restarts,       \* history: how many times the process was stopped and started again
    returned_before,\* history: the ids fetch cycles returned as new before the last restart
    db_seen,        \* Database.seen_listings
    db_seen_doc,    \* the seen_listings.json document
    db_users,       \* Database.users
    db_users_doc,   \* the users.json document of the Database class
    db_last,        \* history: the last Database call, its arguments and what it found
    arg,            \* the input of a pure function under test
    out             \* its result

\* what the bot's coroutines and commands leave alone
dbvars == <<db_seen, db_seen_doc, db_users, db_users_doc, db_last>>

others == <<restarts, returned_before, dbvars, arg, out>>

vars == <<entries, seen_listings, users_json, now, task, sentCount, retCount, failures,
          commands, cycles, others>>

-----------------------------------------------------------------------------
(* Bounds of the model *)

NumChats == 3       \* chat ids 1..NumChats
InitUsers == 2      \* records in the registry after construction: at most this many
NumListings == 2    \* listing ids 1..NumListings
MaxResult == 2      \* length of one Listing Source result
MaxActive == 2      \* coroutines suspended at the same time
MaxCommands == 2    \* registry commands handled in one run
MaxCycles == 2      \* fetch cycles started in one run
MaxFailures == 1    \* send_message calls that fail in one run

\* A run within the bounds is registry commands alone, or one fetch cycle with
\* one command before, during or after it, or several cycles and no command.
MayTrigger == cycles < MaxCycles /\ commands < MaxCommands /\ (cycles = 0 \/ commands = 0)
MayCommand == commands < MaxCommands /\ (cycles = 0 \/ (cycles = 1 /\ commands = 0))

(* Program constants *)

DailyShown == 5
WeeklyShown == 10

None == 0 - 1       \* Python's None in a numeric field

\* a dict is resized, and its entry array rebuilt, when an insertion finds the
\* eight-slot table's five usable entries taken; the model stops short of that
DictUsable == (2 * 8) \div 3

Chats == 1..NumChats
ListingIds == 1..NumListings

-----------------------------------------------------------------------------
(* NotificationMode: a member of the enum, or the bare string that         *)
(* _load_users leaves in the field (the dataclass constructor does not     *)
(* convert it).                                                            *)

IMMEDIATE == "NotificationMode.IMMEDIATE"
DAILY == "NotificationMode.DAILY"
WEEKLY == "NotificationMode.WEEKLY"

NotificationMode == {IMMEDIATE, DAILY, WEEKLY}

ModeStrings == {"immediate", "daily", "weekly"}

\* NotificationMode.<member>.value
ModeValue(m) ==
    CASE m = IMMEDIATE -> "immediate"
      [] m = DAILY -> "daily"
      [] m = WEEKLY -> "weekly"

-----------------------------------------------------------------------------
(* PropertyData, restricted to the fields the dispatch reads.  The fetch   *)
(* cycle asks the source for rooms_min=1 and area_min=20, so a returned    *)
(* listing has rooms and area either unset or positive.                    *)

PropertyData(i) ==
    [id |-> i,
     price |-> 40 + 40 * i,
     rooms |-> IF i % 3 = 0 THEN None ELSE i + 1,
     area |-> IF i % 3 = 0 THEN None ELSE 30 + 15 * i]

Catalog == {PropertyData(i) : i \in ListingIds}

RECURSIVE SeqsUpTo(_, _)
SeqsUpTo(S, n) ==
    IF n = 0 THEN {<<>>}
    ELSE LET shorter == SeqsUpTo(S, n - 1)
         IN  shorter \cup {Append(s, x) : s \in {q \in shorter : Len(q) = n - 1}, x \in S}

\* KVeeScraper.get_owner_direct_listings: any list of listings; a failed
\* request is caught inside and gives the empty list
SourceResults == SeqsUpTo(Catalog, MaxResult)

\* what the request of one fetch meets: a page with these listings, or (ok
\* FALSE) a failure: a non-success status, or an exception of the transport or
\* of the parser after some of the listings have been read
Responses == [ok : BOOLEAN, listings : SourceResults]

\* a variant of get_owner_direct_listings that returns what it had read when
\* the failure came
get_owner_direct_listings_partial(resp) == resp.listings

\* lines 275-297: the list returned to the fetch cycle
get_owner_direct_listings(resp) == IF resp.ok THEN resp.listings ELSE <<>>

-----------------------------------------------------------------------------
(* Filters: a dict from some of the six keys to a number *)

FilterKeys == {"price_min", "price_max", "area_min", "area_max", "rooms_min", "rooms_max"}

EmptyFilter == [k \in {} |-> 0]

FilterChoices == {EmptyFilter, [k \in {"price_max"} |-> 100]}

Has(filters, k) == k \in DOMAIN filters

\* a variant of Truthy that takes every value, None included, as a number to compare
Truthy_all(v) == TRUE

\* Python truth value of an optional number: None and 0 are false
Truthy(v) == v # None /\ v # 0

\* the body of the for loop of _filter_listings: the final value of match
Match(listing, filters) ==
    /\ ~(Has(filters, "price_min") /\ listing.price < filters["price_min"])
    /\ ~(Has(filters, "price_max") /\ listing.price > filters["price_max"])
    /\ ~(Has(filters, "area_min") /\ Truthy(listing.area)
            /\ listing.area < filters["area_min"])
    /\ ~(Has(filters, "area_max") /\ Truthy(listing.area)
            /\ listing.area > filters["area_max"])
    /\ ~(Has(filters, "rooms_min") /\ Truthy(listing.rooms)
            /\ listing.rooms < filters["rooms_min"])
    /\ ~(Has(filters, "rooms_max") /\ Truthy(listing.rooms)
            /\ listing.rooms > filters["rooms_max"])

\* a variant of _filter_listings that leaves the price bounds out
_filter_listings_noprice(listings, filters) ==
    SelectSeq(listings,
              LAMBDA l : Match(l, [k \in DOMAIN filters \ {"price_min", "price_max"}
                                      |-> filters[k]]))

RECURSIVE _filter_listings(_, _)
_filter_listings(listings, filters) ==
    IF listings = <<>> THEN <<>>
    ELSE LET rest == _filter_listings(Tail(listings), filters)
         IN  IF Match(Head(listings), filters) THEN <<Head(listings)>> \o rest ELSE rest

-----------------------------------------------------------------------------
(* UserPreferences and the users dict.  The dict is its entry array: a     *)
(* record per inserted key in insertion order, a deleted key leaving a     *)
(* hole (CPython's dummy entry).  Iteration walks this array.              *)

NoTime == [type |-> "None", t |-> 0]
DateTime(n) == [type |-> "datetime", t |-> n]
\* datetime.isoformat(): a string
IsoFormat(d) == [type |-> "str", t |-> d.t]

UserPreferences(c, mode, flt, sub, last) ==
    [chat_id |-> c, notification_mode |-> mode, last_notification |-> last,
     filters |-> flt, subscribed |-> sub]

NULL == [chat_id |-> 0]
IsNull(e) == e.chat_id = 0

LiveSlots(ents) == {i \in 1..Len(ents) : ~IsNull(ents[i])}
DictLen(ents) == Cardinality(LiveSlots(ents))
Keys(ents) == {ents[i].chat_id : i \in LiveSlots(ents)}
SlotOf(ents, c) == CHOOSE i \in LiveSlots(ents) : ents[i].chat_id = c
\* a variant of DictDel that keeps the record and clears its flag
DictDel_flag(ents, c) == [ents EXCEPT ![SlotOf(ents, c)].subscribed = FALSE]
\* del self.users[chat_id]: the slot becomes a hole
DictDel(ents, c) == [ents EXCEPT ![SlotOf(ents, c)] = NULL]
DictAdd(ents, rec) == Append(ents, rec)

\* the record cmd_start and cmd_subscribe create
NewUser(c) == UserPreferences(c, IMMEDIATE, EmptyFilter, TRUE, NoTime)

(* users.json: one object per key, in the order written *)

StrKey(c) == <<"str", c>>
IntKey(k) == k[2]

DocOf(ents) ==
    LET live == SelectSeq(ents, LAMBDA e : ~IsNull(e))
    IN  [i \in 1..Len(live) |->
            [key |-> StrKey(live[i].chat_id),
             chat_id |-> live[i].chat_id,
             notification_mode |-> ModeValue(live[i].notification_mode),
             last_notification |->
                 IF live[i].last_notification.type = "None" THEN NoTime
                 ELSE IsoFormat(live[i].last_notification),
             filters |-> live[i].filters,
             subscribed |-> live[i].subscribed]]

\* .value of a str, or .isoformat() of a str, raises AttributeError
SaveRaises(ents) ==
    \E i \in LiveSlots(ents) :
        \/ ents[i].notification_mode \notin NotificationMode
        \/ ents[i].last_notification.type = "str"

\* _save_users: the document after the call; an exception leaves the file as it was
_save_users(ents, doc) == IF SaveRaises(ents) THEN doc ELSE DocOf(ents)

\* _load_users: one UserPreferences per object of the document, fields as read
_load_users(doc) ==
    [i \in 1..Len(doc) |->
        UserPreferences(IntKey(doc[i].key), doc[i].notification_mode,
                        doc[i].filters, doc[i].subscribed, doc[i].last_notification)]

-----------------------------------------------------------------------------
(* Iteration over self.users.items(): CPython's dict item iterator *)

NewIter(ents) == [di_used |-> DictLen(ents), di_pos |-> 1, len |-> DictLen(ents)]

\* one call of next(): an item, StopIteration, or RuntimeError
\* ("dictionary changed size during iteration" / "dictionary keys changed during iteration")
IterNext(ents, it) ==
    LET rest == {i \in LiveSlots(ents) : i >= it.di_pos}
        i == IF rest = {} THEN 0 ELSE CHOOSE x \in rest : \A y \in rest : x <= y
    IN  IF it.di_used # DictLen(ents) THEN [st |-> "changed", slot |-> 0, it |-> it]
        ELSE IF rest = {} THEN [st |-> "stop", slot |-> 0, it |-> it]
        ELSE IF it.len = 0 THEN [st |-> "changed", slot |-> 0, it |-> it]
        ELSE [st |-> "item", slot |-> i,
              it |-> [it EXCEPT !.di_pos = i + 1, !.len = it.len - 1]]

\* a variant of Skipped without the test of the subscribed flag
Skipped_nosub(prefs, want) == want # "" /\ prefs.notification_mode # want

\* a variant of Skipped in which _send_notifications serves immediate mode only
Skipped_immediate(prefs, want) ==
    \/ ~prefs.subscribed
    \/ want # "" /\ prefs.notification_mode # want
    \/ want = "" /\ prefs.notification_mode # IMMEDIATE

\* the test at the head of the loop body: TRUE when the subscriber is skipped
\* (want = "" in _send_notifications, which does not look at the mode)
Skipped(prefs, want) ==
    \/ ~prefs.subscribed
    \/ want # "" /\ prefs.notification_mode # want

\* run the for loop up to its next send_message: the subscriber it stops at,
\* or the end of the loop, or the RuntimeError of the iterator
RECURSIVE Scan(_, _, _, _)
Scan(ents, it, listings, want) ==
    LET r == IterNext(ents, it)
    IN  IF r.st # "item" THEN [st |-> r.st, slot |-> 0, it |-> r.it, filtered |-> <<>>]
        ELSE LET prefs == ents[r.slot]
                 filtered == _filter_listings(listings, prefs.filters)
             IN  IF Skipped(prefs, want) \/ filtered = <<>>
                 THEN Scan(ents, r.it, listings, want)
                 ELSE [st |-> "send", slot |-> r.slot, it |-> r.it, filtered |-> filtered]

-----------------------------------------------------------------------------
(* The coroutines: the three scheduler jobs and the /notify handler *)

Tasks == {"interval", "daily", "weekly", "notify"}

\* the mode a summary loop compares with; "" where no loop compares
WantedMode(t) ==
    CASE t = "daily" -> DAILY
      [] t = "weekly" -> WEEKLY
      [] OTHER -> ""

\* filtered_listings[:5] and filtered_listings[:10]
Shown(t, filtered) ==
    LET n == IF t = "daily" THEN DailyShown ELSE WeeklyShown
    IN  SubSeq(filtered, 1, IF Len(filtered) < n THEN Len(filtered) ELSE n)

notifications_enabled == TRUE

IdleTask ==
    [pc |-> "idle",
     src |-> <<>>, seen0 |-> {}, new_listings |-> <<>>,      \* _check_new_listings
     it |-> NewIter(<<>>), slot |-> 0, chat_id |-> 0,         \* the for loop
     filtered |-> <<>>, j |-> 0,
     ret |-> <<>>, err |-> FALSE,
     failed |-> FALSE,        \* history: the source failed in this cycle
     after |-> FALSE,         \* history: a source or delivery failure came before it
     outbox |-> <<>>,                                         \* history: send_message calls
     reg0 |-> <<>>, touched |-> {},       \* history: the registry when _send_notifications
                                          \* started, the chats with a command since
     dreg0 |-> <<>>, dtouched |-> {}]     \* history: the same for the summary loop

Subscribed(ents) == {ents[i].chat_id : i \in {k \in LiveSlots(ents) : ents[k].subscribed}}
Unsubscribed(ents) == Keys(ents) \ Subscribed(ents)

\* the state a coroutine works on between two awaits
Here(t) ==
    [entries |-> entries, seen |-> seen_listings, users_json |-> users_json, now |-> now,
     tk |-> task[t], name |-> t, sentCount |-> sentCount, retCount |-> retCount,
     failures |-> failures]

Ids(listings) == {listings[i].id : i \in 1..Len(listings)}

\* await self.bot.send_message(chat_id, ...): the call is made, the coroutine suspends
Invoke(S, kind, listings) ==
    LET c == S.tk.chat_id
        known == c \in Keys(S.entries)
        rec == IF known THEN S.entries[SlotOf(S.entries, c)] ELSE NewUser(c)
        msg == [to |-> c, kind |-> kind, listings |-> listings, status |-> "pending",
                known |-> known, filters |-> rec.filters, mode |-> rec.notification_mode]
    IN  [S EXCEPT !.tk.outbox = Append(@, msg),
                  !.sentCount[c] = [i \in ListingIds |->
                                      IF i \in Ids(listings) THEN @[i] + 1 ELSE @[i]]]

\* the send_message call the coroutine is suspended in returns or raises
Outcome(S, ok) ==
    [S EXCEPT !.tk.outbox[Len(S.tk.outbox)].status = IF ok THEN "ok" ELSE "failed",
              !.failures = IF ok THEN @ ELSE @ + 1]

\* the job or handler ends: its locals are gone, the history of the run is kept
Done(S) ==
    [S EXCEPT !.tk.pc = "done", !.tk.it = IdleTask.it, !.tk.slot = 0, !.tk.chat_id = 0,
              !.tk.filtered = <<>>, !.tk.j = 0]

\* the daily / weekly handler from its for statement on (lines 424-450, 463-491)
SummaryLoop(S) ==
    LET r == Scan(S.entries, S.tk.it, S.tk.ret, WantedMode(S.name))
    IN  IF r.st = "send"
        THEN Invoke([S EXCEPT !.tk.pc = "summary", !.tk.it = r.it, !.tk.slot = r.slot,
                              !.tk.chat_id = S.entries[r.slot].chat_id,
                              !.tk.filtered = r.filtered],
                    "summary", Shown(S.name, r.filtered))
        ELSE Done([S EXCEPT !.tk.err = @ \/ r.st = "changed"])

\* _check_new_listings returns ret to its caller, and the caller goes on
Returned(S, ret) ==
    LET S1 == [S EXCEPT !.tk.ret = ret,
                        !.retCount = [i \in ListingIds |->
                                        IF i \in Ids(ret) THEN @[i] + 1 ELSE @[i]]]
    IN  IF S.name \in {"daily", "weekly"} /\ ret # <<>>
        THEN SummaryLoop([S1 EXCEPT !.tk.it = NewIter(S1.entries),
                                    !.tk.dreg0 = S1.entries,
                                    !.tk.dtouched = {}])
        ELSE Done(S1)

\* _send_notifications from its for statement on (lines 323-347)
SendLoop(S) ==
    LET r == Scan(S.entries, S.tk.it, S.tk.new_listings, "")
    IN  CASE r.st = "send" ->
               Invoke([S EXCEPT !.tk.pc = "send", !.tk.it = r.it, !.tk.slot = r.slot,
                                !.tk.chat_id = S.entries[r.slot].chat_id,
                                !.tk.filtered = r.filtered, !.tk.j = 1],
                      "listing", <<r.filtered[1]>>)
          [] r.st = "stop" ->
               Returned([S EXCEPT !.tk.it = r.it,
                                  !.users_json = _save_users(S.entries, S.users_json)],
                        S.tk.new_listings)
          [] r.st = "changed" ->
               \* RuntimeError leaves _send_notifications; line 317 catches it
               Returned([S EXCEPT !.tk.it = r.it, !.tk.err = TRUE], <<>>)

\* a variant of NewListings that does not look at the seen set
NewListings_all(listings, seen) == listings

\* a variant of NewListings that tests against the seen set of the cycle's start
NewListings_start(listings, seen) == SelectSeq(listings, LAMBDA l : l.id \notin seen)

\* lines 305-309: the listings whose id is not yet in the seen set, each id once
RECURSIVE NewListings(_, _)
NewListings(listings, seen) ==
    IF listings = <<>> THEN <<>>
    ELSE IF Head(listings).id \notin seen
         THEN <<Head(listings)>> \o NewListings(Tail(listings), seen \cup {Head(listings).id})
         ELSE NewListings(Tail(listings), seen)

\* a variant of _check_new_listings that finds nothing once a delivery has failed
_check_new_listings_giveup(S, listings) ==
    LET new == IF S.failures > 0 THEN <<>> ELSE NewListings(listings, S.seen)
        S1 == [S EXCEPT !.seen = @ \cup Ids(new),
                        !.tk = [IdleTask EXCEPT !.src = listings, !.seen0 = S.seen,
                                                !.new_listings = new]]
    IN  IF new # <<>> /\ notifications_enabled
        THEN SendLoop([S1 EXCEPT !.tk.it = NewIter(S1.entries),
                                 !.tk.reg0 = S1.entries,
                                 !.tk.touched = {}])
        ELSE Returned(S1, new)

\* a variant of _check_new_listings that does not add to the seen set
_check_new_listings_nomark(S, listings) ==
    LET new == NewListings(listings, S.seen)
        S1 == [S EXCEPT !.tk = [IdleTask EXCEPT !.src = listings, !.seen0 = S.seen,
                                                !.new_listings = new]]
    IN  IF new # <<>> /\ notifications_enabled
        THEN SendLoop([S1 EXCEPT !.tk.it = NewIter(S1.entries),
                                 !.tk.reg0 = S1.entries,
                                 !.tk.touched = {}])
        ELSE Returned(S1, new)

\* _check_new_listings up to its first await, or to its return
_check_new_listings(S, listings) ==
    LET new == NewListings(listings, S.seen)
        S1 == [S EXCEPT !.seen = @ \cup Ids(new),
                        !.tk = [IdleTask EXCEPT !.src = listings, !.seen0 = S.seen,
                                                !.new_listings = new]]
    IN  IF new # <<>> /\ notifications_enabled
        THEN SendLoop([S1 EXCEPT !.tk.it = NewIter(S1.entries),
                                 !.tk.reg0 = S1.entries,
                                 !.tk.touched = {}])
        ELSE Returned(S1, new)

\* lines 341-342 after the last send to a subscriber: prefs.last_notification = now
Stamp(S) ==
    IF IsNull(S.entries[S.tk.slot]) THEN [S EXCEPT !.now = @ + 1]
    ELSE [S EXCEPT !.now = @ + 1,
                   !.entries[S.tk.slot].last_notification = DateTime(S.now + 1)]

\* the coroutine reaches its next await (or ends): the new state of the program
Commit(t, S) ==
    /\ entries' = S.entries
    /\ seen_listings' = S.seen
    /\ users_json' = S.users_json
    /\ now' = S.now
    /\ task' = [task EXCEPT ![t] = S.tk]
    /\ sentCount' = S.sentCount
    /\ retCount' = S.retCount
    /\ failures' = S.failures
    /\ UNCHANGED <<commands, others>>

\* coroutine t fetches (line 296) and runs its cycle to the first await or to the end
Fetch(t, resp) ==
    LET S == _check_new_listings(Here(t), get_owner_direct_listings(resp))
    IN  Commit(t, [S EXCEPT !.tk.failed = ~resp.ok,
                            !.tk.after = failures > 0 \/ \E u \in Tasks : task[u].failed])

\* the coroutines suspended at an await; one that has ended keeps its locals
\* (pc = "done") until the job or handler is started again
Active == {t \in Tasks : task[t].pc \notin {"idle", "done"}}

-----------------------------------------------------------------------------
(* The state after TelegramBot.__init__.  users.json is whatever an        *)
(* earlier run or the operator left; _load_users builds the registry from  *)
(* it, with the mode a bare string.  A registry whose records carry enum   *)
(* members, as the dataclass declares the field and as the summary loops   *)
(* compare it, is included as well: it is the state the dispatch code is   *)
(* written for.                                                            *)

\* what a record of chat c may hold after construction
Profiles(c) ==
    {UserPreferences(c, IMMEDIATE, EmptyFilter, TRUE, NoTime),
     UserPreferences(c, DAILY, [k \in {"price_max"} |-> 100], TRUE, NoTime),
     UserPreferences(c, WEEKLY, EmptyFilter, FALSE, NoTime),
     UserPreferences(c, "daily", EmptyFilter, TRUE, NoTime)}

RECURSIVE Registries(_)
Registries(n) ==
    IF n = 0 THEN {<<>>}
    ELSE {Append(r, p) : r \in Registries(n - 1), p \in Profiles(n)}

InitialRegistries == UNION {Registries(n) : n \in 0..InitUsers}

DocBefore(r) ==
    [i \in 1..Len(r) |->
        [key |-> StrKey(r[i].chat_id), chat_id |-> r[i].chat_id,
         notification_mode |-> IF r[i].notification_mode \in ModeStrings
                               THEN r[i].notification_mode
                               ELSE ModeValue(r[i].notification_mode),
         last_notification |-> r[i].last_notification,
         filters |-> r[i].filters, subscribed |-> r[i].subscribed]]

\* the Database class is not used by the bot, and no function is under test
NoDatabase ==
    /\ db_seen = {} /\ db_seen_doc = <<>> /\ db_last = <<>>
    /\ db_users = <<>> /\ db_users_doc = <<>>
NoFunction == arg = <<>> /\ out = <<>>

Init ==
    /\ \E r \in InitialRegistries : entries = r /\ users_json = DocBefore(r)
    /\ seen_listings = {}
    /\ now = 0
    /\ task = [t \in Tasks |-> IdleTask]
    /\ sentCount = [c \in Chats |-> [i \in ListingIds |-> 0]]
    /\ retCount = [i \in ListingIds |-> 0]
    /\ failures = 0
    /\ commands = 0
    /\ cycles = 0
    /\ restarts = 0
    /\ returned_before = {}
    /\ NoDatabase
    /\ NoFunction

-----------------------------------------------------------------------------
(* The scheduler jobs *)

\* the interval job: _check_new_listings (lines 292-319)
IntervalTrigger ==
    /\ task["interval"].pc \in {"idle", "done"}
    /\ Cardinality(Active) < MaxActive
    /\ MayTrigger
    /\ cycles' = cycles + 1
    /\ \E resp \in Responses : Fetch("interval", resp)

\* the cron jobs: _send_daily_notifications, _send_weekly_notifications
CronTrigger(t) ==
    /\ task[t].pc \in {"idle", "done"}
    /\ Cardinality(Active) < MaxActive
    /\ MayTrigger
    /\ notifications_enabled
    /\ cycles' = cycles + 1
    /\ \E resp \in Responses : Fetch(t, resp)

\* cmd_notify up to its first await (line 263)
CmdNotify ==
    /\ task["notify"].pc \in {"idle", "done"}
    /\ Cardinality(Active) < MaxActive
    /\ MayTrigger
    /\ cycles' = cycles + 1
    /\ task' = [task EXCEPT !["notify"] = [IdleTask EXCEPT !.pc = "greet"]]
    /\ UNCHANGED <<entries, seen_listings, users_json, now, sentCount, retCount, failures,
                   commands, others>>

\* cmd_notify from line 267 on; a reply_text that raises ends the handler
NotifyCheck ==
    /\ task["notify"].pc = "greet"
    /\ \/ /\ \E resp \in Responses : Fetch("notify", resp)
          /\ UNCHANGED cycles
       \/ /\ task' = [task EXCEPT !["notify"].pc = "done"]
          /\ UNCHANGED <<entries, seen_listings, users_json, now, sentCount, retCount,
                         failures, commands, cycles, others>>

\* _send_notifications resumes from await send_message (lines 335-345)
SendResume(t) ==
    /\ task[t].pc = "send"
    /\ UNCHANGED cycles
    /\ \E ok \in {b \in BOOLEAN : b \/ failures < MaxFailures} :
          LET S == Outcome(Here(t), ok)
          IN  IF ok /\ S.tk.j < Len(S.tk.filtered)
              THEN Commit(t, Invoke([S EXCEPT !.tk.j = @ + 1],
                                    "listing", <<S.tk.filtered[S.tk.j + 1]>>))
              ELSE IF ok THEN Commit(t, SendLoop(Stamp(S)))
              ELSE Commit(t, SendLoop(S))

\* a summary loop resumes from await send_message (lines 445-450, 486-491):
\* an exception leaves the loop
SummaryResume(t) ==
    /\ task[t].pc = "summary"
    /\ UNCHANGED cycles
    /\ \E ok \in {b \in BOOLEAN : b \/ failures < MaxFailures} :
          LET S == Outcome(Here(t), ok)
          IN  IF ok THEN Commit(t, SummaryLoop(S))
              ELSE Commit(t, Done(S))

-----------------------------------------------------------------------------
(* The registry commands.  The Application handles one update at a time,   *)
(* so a command runs while no /notify is in progress; the scheduler jobs   *)
(* may be suspended at a send.                                             *)

Touch(c) ==
    [t \in Tasks |->
        IF t \notin Active THEN task[t]
        ELSE [task[t] EXCEPT !.touched = @ \cup {c}, !.dtouched = @ \cup {c}]]

Command(c, ents) ==
    /\ "notify" \notin Active
    /\ MayCommand
    /\ commands' = commands + 1
    /\ entries' = ents
    /\ users_json' = _save_users(ents, users_json)
    /\ task' = Touch(c)
    /\ UNCHANGED <<seen_listings, now, sentCount, retCount, failures, cycles, others>>

\* a command that finds nothing to change only replies: no registry change,
\* no _save_users
Reply ==
    /\ "notify" \notin Active
    /\ MayCommand
    /\ commands' = commands + 1
    /\ UNCHANGED <<entries, users_json, task, seen_listings, now, sentCount, retCount,
                   failures, cycles, others>>

cmd_start(c) ==
    IF c \notin Keys(entries)
    THEN /\ Len(entries) < DictUsable
         /\ Command(c, DictAdd(entries, NewUser(c)))
    ELSE Reply

cmd_subscribe(c) ==
    IF c \in Keys(entries)
    THEN Command(c, [entries EXCEPT ![SlotOf(entries, c)].subscribed = TRUE])
    ELSE /\ Len(entries) < DictUsable
         /\ Command(c, DictAdd(entries, NewUser(c)))

cmd_unsubscribe(c) ==
    IF c \in Keys(entries)
    THEN Command(c, [entries EXCEPT ![SlotOf(entries, c)].subscribed = FALSE])
    ELSE Reply

cmd_stop(c) ==
    IF c \in Keys(entries)
    THEN Command(c, DictDel(entries, c))
    ELSE Reply

Next ==
    \/ IntervalTrigger
    \/ \E t \in {"daily", "weekly"} : CronTrigger(t)
    \/ CmdNotify
    \/ NotifyCheck
    \/ \E t \in Tasks : SendResume(t)
    \/ \E t \in {"daily", "weekly"} : SummaryResume(t)
    \/ \E c \in Chats : cmd_start(c)
    \/ \E c \in Chats : cmd_subscribe(c)
    \/ \E c \in Chats : cmd_unsubscribe(c)
    \/ \E c \in Chats : cmd_stop(c)

Spec == Init /\ [][Next]_vars

-----------------------------------------------------------------------------
(* Reference definitions the properties are stated with *)

\* the cycle of coroutine t has run its fetch
Ran(t) == task[t].pc \in {"send", "summary", "done"}

Messages(t) == {task[t].outbox[k] : k \in 1..Len(task[t].outbox)}

Range(seq) == {seq[k] : k \in 1..Len(seq)}

FieldOf(listing, k) ==
    CASE k \in {"price_min", "price_max"} -> listing.price
      [] k \in {"area_min", "area_max"} -> listing.area
      [] k \in {"rooms_min", "rooms_max"} -> listing.rooms

\* every bound of the filter holds, inclusive; an unset field passes its bounds
Satisfies(listing, filters) ==
    \A k \in DOMAIN filters :
        \/ FieldOf(listing, k) = None
        \/ IF k \in {"price_min", "area_min", "rooms_min"}
           THEN FieldOf(listing, k) >= filters[k]
           ELSE FieldOf(listing, k) <= filters[k]

\* the listings of a source result whose id is not in seen, the first of each id,
\* in source order
FirstNew(src, seen) ==
    LET P == {i \in 1..Len(src) :
                /\ src[i].id \notin seen
                /\ \A j \in 1..(i - 1) : src[j].id # src[i].id}
        Nth(k) == CHOOSE q \in P : Cardinality({r \in P : r < q}) = k - 1
    IN  [k \in 1..Cardinality(P) |-> src[Nth(k)]]

\* the subscribers a dispatch found when it started, and their records
Sub0(t) == Subscribed(task[t].reg0)
Unsub0(t) == Unsubscribed(task[t].reg0)
DSub0(t) == Subscribed(task[t].dreg0)
DUnsub0(t) == Unsubscribed(task[t].dreg0)
FiltersOf(ents, c) == ents[SlotOf(ents, c)].filters
ModeOf(ents, c) == ents[SlotOf(ents, c)].notification_mode

\* chat c was sent listing l by coroutine t, in a message of the given kind
Got(t, c, l, kind) ==
    \E m \in Messages(t) : m.to = c /\ m.kind = kind /\ l \in Range(m.listings)

\* the mode a trigger is for
TriggerMode(t) ==
    CASE t = "interval" -> "immediate"
      [] t = "daily" -> "daily"
      [] t = "weekly" -> "weekly"

ModeName(m) == IF m \in NotificationMode THEN ModeValue(m) ELSE m

-----------------------------------------------------------------------------
(* C1: within one run, a listing id is returned as new by at most one call *)
(* of _check_new_listings, however the jobs and /notify interleave.        *)
C1_NewAtMostOnce == \A i \in ListingIds : retCount[i] <= 1

\* a cycle that ran while another was suspended at a send got the id the other
\* one had found, and did not return it
C1_Witness ==
    \E t \in Tasks, u \in Tasks, i \in ListingIds :
        /\ t # u
        /\ task[t].pc = "send" /\ i \in Ids(task[t].new_listings)
        /\ task[u].pc = "done" /\ i \in Ids(task[u].src) /\ i \in task[u].seen0
        /\ i \notin Ids(task[u].ret)

(* C2: a cycle whose source result holds only ids already in the seen set  *)
(* returns the empty list and sends no message, whichever trigger ran it.  *)
C2_AllSeenSendsNothing ==
    \A t \in Tasks :
        (Ran(t) /\ Ids(task[t].src) \subseteq task[t].seen0)
            => task[t].pc = "done" /\ task[t].ret = <<>> /\ task[t].outbox = <<>>

\* scenario B: a non-empty result, all of it seen, with a subscriber it matches
C2_Witness ==
    \E t \in Tasks :
        /\ task[t].pc = "done" /\ task[t].src # <<>>
        /\ Ids(task[t].src) \subseteq task[t].seen0
        /\ \E c \in Subscribed(entries) :
              \E l \in Range(task[t].src) : Satisfies(l, FiltersOf(entries, c))

(* C3: a cycle that completes (returns from line 315, not from the except  *)
(* clause) returns exactly the source listings whose id was not in the     *)
(* seen set at its start, each id once, in source order; and once the      *)
(* fetch has run every id of the source result is in the seen set.         *)
C3_ReturnsExactlyTheNew ==
    \A t \in Tasks :
        /\ Ran(t) => Ids(task[t].src) \subseteq seen_listings
        /\ (task[t].pc = "done" /\ ~task[t].err)
              => task[t].ret = FirstNew(task[t].src, task[t].seen0)

\* a result with a repeated new id and a seen id, no subscriber taking the new one
C3_Witness ==
    \E t \in Tasks :
        /\ task[t].pc = "done" /\ ~task[t].err
        /\ Len(task[t].src) = 2 /\ Len(task[t].ret) = 1
        /\ task[t].outbox = <<>>
        /\ Ids(task[t].ret) \subseteq seen_listings

C5_OwnModeOnly ==
    \A t \in {"interval", "daily", "weekly"} :
        \A m \in Messages(t) : m.known => ModeName(m.mode) = TriggerMode(t)

C7_NoMissedDelivery ==
    \A t \in Tasks :
        (task[t].pc = "done" /\ failures = 0)
            => \A c \in (Sub0(t) \ task[t].touched) :
                  \A l \in Range(task[t].ret) :
                      Satisfies(l, FiltersOf(task[t].reg0, c))
                          => \E m \in Messages(t) :
                                /\ m.to = c /\ m.kind = "listing" /\ m.status = "ok"
                                /\ m.listings = <<l>>

\* a cycle returned two listings; a daily-mode and an immediate-mode subscriber
\* were each sent what fits them
C7_Witness ==
    \E t \in Tasks :
        /\ task[t].pc = "done" /\ failures = 0 /\ Len(task[t].ret) = 2
        /\ \E c \in Sub0(t) \ task[t].touched, d \in Sub0(t) \ task[t].touched :
              /\ ModeOf(task[t].reg0, c) = DAILY /\ ModeOf(task[t].reg0, d) = IMMEDIATE
              /\ \E l \in Range(task[t].ret) : Got(t, c, l, "listing")
              /\ \E l \in Range(task[t].ret) : Got(t, d, l, "listing")

(* C8, as stated: a dispatch that starts while a subscriber has            *)
(* subscribed=false sends that subscriber nothing.                         *)
C8_UnsubscribedAtStart ==
    \A t \in Tasks : \A m \in Messages(t) :
        /\ m.kind = "listing" => m.to \notin Unsub0(t)
        /\ m.kind = "summary" => m.to \notin DUnsub0(t)

(* C8, amended: a dispatch sends nothing to a subscriber who has           *)
(* subscribed=false when it starts and issues no command while it runs.    *)
C8_UnsubscribedThroughout ==
    \A t \in Tasks : \A m \in Messages(t) :
        /\ m.kind = "listing" => m.to \notin (Unsub0(t) \ task[t].touched)
        /\ m.kind = "summary" => m.to \notin (DUnsub0(t) \ task[t].dtouched)

\* a weekly firing served a subscriber and passed one with subscribed=false
\* whose mode and filters fit
C8_Witness ==
    /\ task["weekly"].pc = "done"
    /\ \E m \in Messages("weekly") : m.kind = "listing"
    /\ \E c \in Unsub0("weekly") \ task["weekly"].touched :
          /\ ModeOf(task["weekly"].reg0, c) = WEEKLY
          /\ \A l \in Range(task["weekly"].ret) :
                Satisfies(l, FiltersOf(task["weekly"].reg0, c))
          /\ \A m \in Messages("weekly") : m.to # c

(* C9: when a send of _send_notifications fails, every other subscribed    *)
(* subscriber still gets all the listings that match their filters in the  *)
(* same dispatch.                                                          *)
C9_PerListingIsolation ==
    \A t \in Tasks :
        (/\ task[t].pc \in {"summary", "done"}
         /\ \E m \in Messages(t) : m.kind = "listing" /\ m.status = "failed")
            => \A c \in (Sub0(t) \ task[t].touched) :
                  (\A m \in Messages(t) : m.to = c => m.status # "failed")
                      => \A l \in Range(task[t].new_listings) :
                            Satisfies(l, FiltersOf(task[t].reg0, c))
                                => Got(t, c, l, "listing")

Persisted(c) ==
    \E k \in 1..Len(users_json) :
        users_json[k].chat_id = c /\ users_json[k].last_notification.type = "str"

(* C11: after a dispatch that ran to its end and in which a delivery        *)
(* failed, users.json holds an updated last_notification for every          *)
(* subscriber that had a matching listing, the one whose delivery failed    *)
(* included.                                                                *)
C11_StampedDespiteFailure ==
    \A t \in Tasks :
        (/\ task[t].pc \in {"summary", "done"} /\ ~task[t].err
         /\ task[t].touched = {} /\ ~SaveRaises(task[t].reg0)
         /\ \E m \in Messages(t) : m.kind = "listing" /\ m.status = "failed")
            => \A c \in Sub0(t) \cap Keys(entries) :
                  (\E l \in Range(task[t].new_listings) :
                        Satisfies(l, FiltersOf(task[t].reg0, c)))
                      => Persisted(c)

-----------------------------------------------------------------------------
(* database.py: the Database class and its seen-set store.  Nothing in     *)
(* telegram_bot.py constructs it; it is modelled on its own, the bot's     *)
(* variables standing still.                                               *)

SeenCap == 10000

\* ids the calls are made with: some at the low end, some around the cap
Span == 2
DbIds == (0..Span) \cup ((SeenCap - 1)..(SeenCap + Span))

\* list(self.seen_listings): a set of ints iterates in the order of its hash
\* table, which for non-negative ids below the table's size (16384 slots or
\* more for a set at the cap) is ascending order of the id
First(seen) == CHOOSE x \in seen : \A y \in seen : x <= y

\* a variant of KeepLast that keeps everything
KeepLast_all(seen, n) == seen

\* set(list(seen)[-n:])
RECURSIVE KeepLast(_, _)
KeepLast(seen, n) ==
    IF Cardinality(seen) <= n THEN seen ELSE KeepLast(seen \ {First(seen)}, n)

\* a variant of Marked that prunes as soon as the cap is reached
Marked_early(seen, listing_id) ==
    LET added == seen \cup {listing_id}
    IN  IF Cardinality(added) >= SeenCap THEN KeepLast(added, SeenCap - 1) ELSE added

\* lines 78-81: the set mark_seen leaves in memory
Marked(seen, listing_id) ==
    LET added == seen \cup {listing_id}
    IN  IF Cardinality(added) > SeenCap THEN KeepLast(added, SeenCap) ELSE added

is_seen(seen, listing_id) == listing_id \in seen

(* seen_listings.json: absent, or a JSON array (the bag of its elements), *)
(* or text that does not parse                                            *)

AbsentDoc == [state |-> "absent", ids |-> EmptyBag]
CorruptDoc == [state |-> "corrupt", ids |-> EmptyBag]

\* json.dump(list(self.seen_listings), f): every element of the set, once
SeenDoc(seen) == [state |-> "valid", ids |-> SetToBag(seen)]

\* how a write ends: done, or open() raises and the file stays as it was, or
\* the write raises after open() has truncated the file
Writes == {"ok", "unopened", "truncated"}

\* _save_data, the seen-set half: the document after the call
_save_data(seen, doc, w) ==
    CASE w = "ok" -> SeenDoc(seen)
      [] w = "unopened" -> doc
      [] w = "truncated" -> CorruptDoc

\* _load_data, the seen-set half: the set after construction
_load_data(doc) == IF doc.state = "valid" THEN BagToSet(doc.ids) ELSE {}

\* what an earlier run left in seen_listings.json
InitialSeenDocs == {AbsentDoc, SeenDoc(1..(SeenCap - 1)), SeenDoc(1..SeenCap)}

\* the bot is not running
NoBot ==
    /\ entries = <<>> /\ users_json = <<>> /\ seen_listings = {} /\ now = 0
    /\ task = [t \in Tasks |-> IdleTask]
    /\ sentCount = [c \in Chats |-> [i \in ListingIds |-> 0]]
    /\ retCount = [i \in ListingIds |-> 0]
    /\ failures = 0 /\ commands = 0 /\ cycles = 0
    /\ restarts = 0 /\ returned_before = {}

botvars == <<entries, seen_listings, users_json, now, task, sentCount, retCount, failures,
             commands, cycles, restarts, returned_before>>

(* Database.users: a dict from str(chat_id) to the preferences dict the    *)
(* caller gave, a dict from key names to values                            *)

EmptyDict == <<>>

\* dict.update(): the keys of p replace or extend those of d
DictUpdate(d, p) ==
    [k \in (DOMAIN d) \cup (DOMAIN p) |-> IF k \in DOMAIN p THEN p[k] ELSE d[k]]

\* dict.get(k, default)
DictGet(d, k, default) == IF k \in DOMAIN d THEN d[k] ELSE default

\* line 57: self.users[str(chat_id)] = preferences
Added(users, chat_id, preferences) ==
    [k \in (DOMAIN users) \cup {StrKey(chat_id)} |->
        IF k = StrKey(chat_id) THEN preferences ELSE users[k]]

\* lines 66-67: the registry update_user leaves in memory
Updated(users, chat_id, preferences) ==
    IF StrKey(chat_id) \in DOMAIN users
    THEN [users EXCEPT ![StrKey(chat_id)] = DictUpdate(@, preferences)]
    ELSE users

\* lines 72-73: the registry delete_user leaves in memory
Deleted(users, chat_id) ==
    [k \in (DOMAIN users) \ {StrKey(chat_id)} |-> users[k]]

\* Python's None where a dict or a str is expected
NoPrefs == [none |-> TRUE]
NoMode == "None"

\* line 62: self.users.get(str(chat_id)), None when the key is missing
get_user(users, chat_id) == DictGet(users, StrKey(chat_id), NoPrefs)

\* lines 102-106: keys back to int, records whose "subscribed" is true
get_subscribed_users(users) ==
    LET keep == {k \in DOMAIN users : DictGet(users[k], "subscribed", FALSE)}
    IN  [c \in {IntKey(k) : k \in keep} |-> users[StrKey(c)]]

\* lines 110-114: keys back to int, records whose "notification_mode" is mode
get_users_by_notification_mode(users, mode) ==
    LET keep == {k \in DOMAIN users :
                    DictGet(users[k], "notification_mode", NoMode) = mode}
    IN  [c \in {IntKey(k) : k \in keep} |-> users[StrKey(c)]]

(* users.json as the Database class writes it: absent, or a JSON object    *)
(* holding the registry, or text that does not parse.  Keys are strings    *)
(* and values JSON values already, so json.load gives back what json.dump  *)
(* was given.                                                              *)

AbsentUsersDoc == [state |-> "absent", users |-> EmptyDict]
CorruptUsersDoc == [state |-> "corrupt", users |-> EmptyDict]
UsersDoc(users) == [state |-> "valid", users |-> users]

\* _save_data writes users.json first and seen_listings.json second inside
\* one try: when the first write raises, the second file is not opened
SaveOutcomes ==
    {w \in [users : Writes, seen : Writes] : w.users # "ok" => w.seen = "unopened"}

\* _save_data, the users half: the document after the call
_save_data_users(users, doc, w) ==
    CASE w = "ok" -> UsersDoc(users)
      [] w = "unopened" -> doc
      [] w = "truncated" -> CorruptUsersDoc

\* _load_data, both halves under its one try: a document that does not parse
\* raises, and the handler empties the registry and the seen set alike
LoadData(users_doc, seen_doc) ==
    IF users_doc.state = "corrupt" \/ seen_doc.state = "corrupt"
    THEN [users |-> EmptyDict, seen |-> {}]
    ELSE [users |-> IF users_doc.state = "valid" THEN users_doc.users ELSE EmptyDict,
          seen |-> _load_data(seen_doc)]

\* the last Database call: its name, its id argument (a listing id or a chat
\* id), its preferences argument, the seen set and the registry it found, and
\* how the two writes of its _save_data ended ("none" when it did not save),
\* and the dict it returned (empty when it returns nothing)
Call(op, id, preferences, w) ==
    [op |-> op, id |-> id, preferences |-> preferences,
     before |-> db_seen, users |-> db_users, w |-> w.seen, uw |-> w.users,
     result |-> EmptyDict]

NoSave == [users |-> "none", seen |-> "none"]

InitDb ==
    /\ NoBot
    /\ NoFunction
    /\ \E doc \in InitialSeenDocs : db_seen_doc = doc /\ db_seen = _load_data(doc)
    /\ db_users = EmptyDict
    /\ db_users_doc = AbsentUsersDoc
    /\ db_last = [op |-> "__init__", id |-> 0, preferences |-> EmptyDict,
                  before |-> {}, users |-> EmptyDict, w |-> "ok", uw |-> "ok",
                  result |-> EmptyDict]

mark_seen(listing_id, w) ==
    /\ db_seen' = Marked(db_seen, listing_id)
    /\ db_users_doc' = _save_data_users(db_users, db_users_doc, w.users)
    /\ db_seen_doc' = _save_data(db_seen', db_seen_doc, w.seen)
    /\ db_last' = Call("mark_seen", listing_id, EmptyDict, w)
    /\ UNCHANGED <<botvars, db_users, arg, out>>

cleanup_old_seen(w) ==
    /\ IF Cardinality(db_seen) > SeenCap
       THEN /\ db_seen' = KeepLast(db_seen, SeenCap)
            /\ db_users_doc' = _save_data_users(db_users, db_users_doc, w.users)
            /\ db_seen_doc' = _save_data(db_seen', db_seen_doc, w.seen)
            /\ db_last' = Call("cleanup_old_seen", 0, EmptyDict, w)
       ELSE /\ UNCHANGED <<db_seen, db_seen_doc, db_users_doc>>
            /\ db_last' = Call("cleanup_old_seen", 0, EmptyDict, NoSave)
    /\ UNCHANGED <<botvars, db_users, arg, out>>

NextDb ==
    \/ \E listing_id \in DbIds, w \in SaveOutcomes : mark_seen(listing_id, w)
    \/ \E w \in SaveOutcomes : cleanup_old_seen(w)

SpecDb == InitDb /\ [][NextDb]_vars

(* C12: after any sequence of mark_seen and cleanup_old_seen calls that     *)
(* starts from a set within the cap, Database.seen_listings holds at most   *)
(* 10,000 ids.                                                              *)
C12_SeenWithinCap == Cardinality(db_seen) <= SeenCap

\* mark_seen found the set at the cap, added an id it did not hold, and pruned
C12_Witness ==
    /\ db_last.op = "mark_seen"
    /\ Cardinality(db_last.before) = SeenCap
    /\ db_last.id \notin db_last.before
    /\ Cardinality(db_seen) = SeenCap

(* C14: immediately after mark_seen(id) returns, is_seen(id) is true,       *)
(* whatever the set held before, a set of 10,000 other ids included.        *)
C14_SeenAfterMark ==
    db_last.op = "mark_seen" => is_seen(db_seen, db_last.id)

(* C15: mark_seen(id) on a set that already holds id leaves the set in      *)
(* memory as it was, and the document it writes holds id exactly once.      *)
C15_MarkSeenIdempotent ==
    (db_last.op = "mark_seen" /\ db_last.id \in db_last.before)
        => /\ db_seen = db_last.before
           /\ db_last.w = "ok"
                 => /\ db_seen_doc.state = "valid"
                    /\ CopiesIn(db_last.id, db_seen_doc.ids) = 1
                    /\ BagToSet(db_seen_doc.ids) = db_seen

\* the second mark_seen of an id, on a set at the cap, written to the file
C15_Witness ==
    /\ db_last.op = "mark_seen" /\ db_last.w = "ok"
    /\ db_last.id \in db_last.before
    /\ Cardinality(db_last.before) = SeenCap

-----------------------------------------------------------------------------
(* Many fetch cycles: the interval job over a source whose every result is  *)
(* a page of listings newer than all it has shown, with nobody subscribed,  *)
(* so that every cycle runs to its end without a send.                      *)

\* listings in one result (the request asks for page_size=100)
PageLen == 40

\* one search result: the listings first .. first + PageLen - 1
Page(first) == [k \in 1..PageLen |-> PropertyData(first + k - 1)]

InitGrow == Init /\ Subscribed(entries) = {}

\* the interval job (lines 292-319)
PageCycle ==
    /\ task["interval"].pc \in {"idle", "done"}
    /\ Cardinality(seen_listings) <= SeenCap
    /\ cycles' = cycles + 1
    /\ Commit("interval",
              _check_new_listings(Here("interval"), Page(Cardinality(seen_listings) + 1)))

NextGrow == PageCycle

SpecGrow == InitGrow /\ [][NextGrow]_vars

(* C13: TelegramBot.seen_listings, the set the fetch cycle reads and        *)
(* updates, never holds more than 10,000 ids.                               *)
C13_BotSeenWithinCap == Cardinality(seen_listings) <= SeenCap

-----------------------------------------------------------------------------
(* Stopping the process and starting it again *)

MaxRestarts == 1    \* restarts in one behaviour

\* the process ends at any point and main() builds a new TelegramBot: the
\* registry is read from users.json, everything else starts as __init__ sets it
Restart ==
    /\ restarts < MaxRestarts
    /\ restarts' = restarts + 1
    /\ returned_before' = returned_before \cup {i \in ListingIds : retCount[i] > 0}
    /\ entries' = _load_users(users_json)
    /\ seen_listings' = {}
    /\ task' = [t \in Tasks |-> IdleTask]
    /\ sentCount' = [c \in Chats |-> [i \in ListingIds |-> 0]]
    /\ retCount' = [i \in ListingIds |-> 0]
    /\ UNCHANGED <<users_json, now, failures, commands, cycles,
                   dbvars, arg, out>>

NextRestart == Next \/ Restart

SpecRestart == Init /\ [][NextRestart]_vars

(* C16: an id that a fetch cycle returned as new before the process was     *)
(* stopped is in the seen set once the process runs again, and no cycle     *)
(* after the restart returns it as new.                                     *)
C16_SeenSurvivesRestart ==
    /\ restarts > 0 => returned_before \subseteq seen_listings
    /\ \A t \in Tasks : Ran(t) => Ids(task[t].ret) \cap returned_before = {}

-----------------------------------------------------------------------------
(* _filter_listings on its own: one call on a list of one listing *)

MaxValue == 2       \* prices, areas, room counts and filter bounds up to this

\* price is a required int; rooms and area are None, 0 or more
TestListings ==
    [id : {1}, price : 0..MaxValue,
     rooms : {None} \cup (0..MaxValue), area : {None} \cup (0..MaxValue)]

TestFilters == UNION {[K -> 1..MaxValue] : K \in SUBSET FilterKeys}

FilterInputs == [listing : TestListings, filters : TestFilters]

InitFilter ==
    /\ NoBot
    /\ NoDatabase
    /\ arg \in FilterInputs
    /\ out = [done |-> FALSE, kept |-> <<>>]

FilterCall ==
    /\ ~out.done
    /\ out' = [done |-> TRUE, kept |-> _filter_listings(<<arg.listing>>, arg.filters)]
    /\ UNCHANGED <<botvars, dbvars, arg>>

NextFilter == FilterCall

SpecFilter == InitFilter /\ [][NextFilter]_vars

(* C17: _filter_listings keeps a listing exactly when every bound of the    *)
(* filter holds, inclusive, a field that is unset passing its bounds; the   *)
(* values 0 for rooms and area included; an empty filter keeps every        *)
(* listing.                                                                 *)
C17_FilterIsReference ==
    out.done =>
        /\ out.kept \in {<<>>, <<arg.listing>>}
        /\ out.kept = <<arg.listing>> <=> Satisfies(arg.listing, arg.filters)
        /\ arg.filters = EmptyFilter => out.kept = <<arg.listing>>

\* the filter without the bounds on the fields the listing has not set
BoundsOnSetFields(listing, filters) ==
    LET off == (IF listing.rooms = None THEN {"rooms_min", "rooms_max"} ELSE {})
                 \cup (IF listing.area = None THEN {"area_min", "area_max"} ELSE {})
    IN  [k \in DOMAIN filters \ off |-> filters[k]]

(* C18: a listing whose rooms (area) is unset passes every rooms (area)     *)
(* bound: the result is that of the filter without those bounds.            *)
C18_UnsetFieldPasses ==
    out.done =>
        out.kept = _filter_listings(<<arg.listing>>,
                                    BoundsOnSetFields(arg.listing, arg.filters))

\* a listing without rooms and area was kept under bounds on all six keys
C18_Witness ==
    /\ out.done /\ out.kept = <<arg.listing>>
    /\ arg.listing.rooms = None /\ arg.listing.area = None
    /\ DOMAIN arg.filters = FilterKeys

-----------------------------------------------------------------------------
(* Failures of the source and what follows them *)

\* coroutine t runs its fetch in this step
Fetches(t) ==
    /\ task[t].pc \in {"idle", "done", "greet"}
    /\ task'[t] # task[t]
    /\ task'[t].pc \in {"send", "summary", "done"}

Failed == failures > 0 \/ \E u \in Tasks : task[u].failed

(* C20: after source and delivery failures every trigger can fire again,    *)
(* and a cycle that follows them with a working source and channel returns  *)
(* the listings not yet seen and sends each to every subscribed subscriber  *)
(* it matches.                                                              *)
C20_WorksAfterFailures ==
    /\ (Failed /\ MayTrigger /\ Cardinality(Active) < MaxActive)
          => /\ task["interval"].pc \in {"idle", "done"} => ENABLED IntervalTrigger
             /\ \A t \in {"daily", "weekly"} :
                   task[t].pc \in {"idle", "done"} => ENABLED CronTrigger(t)
             /\ task["notify"].pc \in {"idle", "done"} => ENABLED CmdNotify
    /\ \A t \in Tasks :
          (/\ task[t].pc = "done" /\ task[t].after
           /\ ~task[t].failed /\ ~task[t].err
           /\ \A m \in Messages(t) : m.status = "ok")
              => /\ task[t].ret = FirstNew(task[t].src, task[t].seen0)
                 /\ \A c \in Sub0(t) \ task[t].touched :
                       \A l \in Range(task[t].ret) :
                           Satisfies(l, FiltersOf(task[t].reg0, c))
                               => \E m \in Messages(t) :
                                     /\ m.to = c /\ m.kind = "listing"
                                     /\ m.listings = <<l>>

\* after a failed delivery in the run, a later cycle found a new listing and
\* delivered it
C20_Witness ==
    \E t \in Tasks :
        /\ task[t].pc = "done" /\ task[t].after /\ ~task[t].failed
        /\ failures > 0
        /\ task[t].ret # <<>>
        /\ task[t].outbox # <<>>
        /\ \A m \in Messages(t) : m.status = "ok"

-----------------------------------------------------------------------------
(* The subscriber registry of the Database class: add_user, update_user,   *)
(* delete_user, and the construction of a new instance over the documents  *)
(* the last one left                                                       *)

NumDbUsers == 2     \* chat ids the registry is called with
DbChats == 1..NumDbUsers

\* the preferences of a new subscriber: NotificationMode.IMMEDIATE.value, no
\* filters, subscribed (the values cmd_start gives a new UserPreferences)
DefaultPrefs ==
    [notification_mode |-> "immediate", filters |-> EmptyDict, subscribed |-> TRUE]

\* the preferences add_user and update_user are called with
AddInputs == {DefaultPrefs}
UpdateInputs == {[subscribed |-> FALSE], [notification_mode |-> "daily"]}

\* what an earlier run left in the two documents when its writes succeeded
InitialUsersDocs == {AbsentUsersDoc, UsersDoc(Added(EmptyDict, 1, DefaultPrefs))}
InitialRegSeenDocs == {AbsentDoc, SeenDoc({1})}

InitReg ==
    /\ NoBot
    /\ NoFunction
    /\ db_users_doc \in InitialUsersDocs
    /\ db_seen_doc \in InitialRegSeenDocs
    /\ db_users = LoadData(db_users_doc, db_seen_doc).users
    /\ db_seen = LoadData(db_users_doc, db_seen_doc).seen
    /\ db_last = [op |-> "__init__", id |-> 0, preferences |-> EmptyDict,
                  before |-> {}, users |-> EmptyDict, w |-> "none", uw |-> "none",
                  result |-> EmptyDict]

\* lines 11-21: a new Database over the documents as they are
__init__ ==
    /\ db_users' = LoadData(db_users_doc, db_seen_doc).users
    /\ db_seen' = LoadData(db_users_doc, db_seen_doc).seen
    /\ db_last' = Call("__init__", 0, EmptyDict, NoSave)
    /\ UNCHANGED <<botvars, db_users_doc, db_seen_doc, arg, out>>

\* what a call that saves leaves in the two documents
Saved(w) ==
    /\ db_users_doc' = _save_data_users(db_users', db_users_doc, w.users)
    /\ db_seen_doc' = _save_data(db_seen, db_seen_doc, w.seen)

add_user(chat_id, preferences, w) ==
    /\ db_users' = Added(db_users, chat_id, preferences)
    /\ Saved(w)
    /\ db_last' = Call("add_user", chat_id, preferences, w)
    /\ UNCHANGED <<botvars, db_seen, arg, out>>

update_user(chat_id, preferences, w) ==
    /\ db_users' = Updated(db_users, chat_id, preferences)
    /\ IF StrKey(chat_id) \in DOMAIN db_users
       THEN /\ Saved(w)
            /\ db_last' = Call("update_user", chat_id, preferences, w)
       ELSE /\ UNCHANGED <<db_users_doc, db_seen_doc>>
            /\ db_last' = Call("update_user", chat_id, preferences, NoSave)
    /\ UNCHANGED <<botvars, db_seen, arg, out>>

delete_user(chat_id, w) ==
    /\ db_users' = Deleted(db_users, chat_id)
    /\ IF StrKey(chat_id) \in DOMAIN db_users
       THEN /\ Saved(w)
            /\ db_last' = Call("delete_user", chat_id, EmptyDict, w)
       ELSE /\ UNCHANGED <<db_users_doc, db_seen_doc>>
            /\ db_last' = Call("delete_user", chat_id, EmptyDict, NoSave)
    /\ UNCHANGED <<botvars, db_seen, arg, out>>

\* the two listings of subscribers, as called
call_get_subscribed_users ==
    /\ db_last' = [Call("get_subscribed_users", 0, EmptyDict, NoSave)
                      EXCEPT !.result = get_subscribed_users(db_users)]
    /\ UNCHANGED <<botvars, db_users, db_seen, db_users_doc, db_seen_doc, arg, out>>

call_get_users_by_notification_mode(mode) ==
    /\ db_last' = [Call("get_users_by_notification_mode", 0,
                        [notification_mode |-> mode], NoSave)
                      EXCEPT !.result = get_users_by_notification_mode(db_users, mode)]
    /\ UNCHANGED <<botvars, db_users, db_seen, db_users_doc, db_seen_doc, arg, out>>

NextReg ==
    \/ __init__
    \/ call_get_subscribed_users
    \/ \E mode \in ModeStrings : call_get_users_by_notification_mode(mode)
    \/ \E c \in DbChats, p \in AddInputs, w \in SaveOutcomes : add_user(c, p, w)
    \/ \E c \in DbChats, p \in UpdateInputs, w \in SaveOutcomes : update_user(c, p, w)
    \/ \E c \in DbChats, w \in SaveOutcomes : delete_user(c, w)

SpecReg == InitReg /\ [][NextReg]_vars

(* C21: after update_user(chat_id, preferences) the registry holds a record *)
(* for chat_id: the record it held before, or when it held none the         *)
(* defaults notification_mode=immediate, filters={}, subscribed=true, with  *)
(* the given keys replaced; every other subscriber's record is as before.   *)
C21_RegistryUpsert ==
    db_last.op = "update_user" =>
        LET key == StrKey(db_last.id)
            before == db_last.users
            base == IF key \in DOMAIN before THEN before[key] ELSE DefaultPrefs
        IN  /\ get_user(db_users, db_last.id) = DictUpdate(base, db_last.preferences)
            /\ (DOMAIN db_users) \ {key} = (DOMAIN before) \ {key}
            /\ \A k \in (DOMAIN before) \ {key} : db_users[k] = before[k]

-----------------------------------------------------------------------------
(* The registry commands of the bot *)

\* the record the registry holds for chat c
RecordOf(ents, c) == ents[SlotOf(ents, c)]

\* every chat but c has the record it had
OthersKept(c) ==
    \A d \in Chats \ {c} :
        /\ d \in Keys(entries') <=> d \in Keys(entries)
        /\ d \in Keys(entries) => RecordOf(entries', d) = RecordOf(entries, d)

(* C22: /stop leaves no record for the chat, so that a lookup finds nothing *)
(* and a later /start creates the default record anew; /unsubscribe sets    *)
(* subscribed to false and leaves the record, its filters, its mode and its *)
(* stamp as they were, and creates no record for a chat that has none; no   *)
(* other chat's record changes.                                             *)
C22_StopRemovesUnsubscribeKeeps ==
    [][\A c \in Chats :
        /\ cmd_stop(c) => c \notin Keys(entries') /\ OthersKept(c)
        /\ cmd_unsubscribe(c) =>
              /\ OthersKept(c)
              /\ c \in Keys(entries') <=> c \in Keys(entries)
              /\ c \in Keys(entries) =>
                    RecordOf(entries', c) = [RecordOf(entries, c) EXCEPT !.subscribed = FALSE]
        /\ (cmd_start(c) /\ c \notin Keys(entries)) =>
              RecordOf(entries', c) = NewUser(c) /\ OthersKept(c)]_vars

\* chat 1 has issued /stop and chat 2 /unsubscribe: the first slot of the
\* registry is a hole, and chat 2 holds a record that no registry starts with
C22_Witness ==
    /\ commands = 2
    /\ Len(entries) = 2
    /\ IsNull(entries[1])
    /\ 2 \in Keys(entries)
    /\ RecordOf(entries, 2) = UserPreferences(2, IMMEDIATE, EmptyFilter, FALSE, NoTime)

(* C23: get_users_by_notification_mode(mode) returns exactly the chats      *)
(* whose record has subscribed=true and notification_mode=mode, each with   *)
(* its record; a chat with subscribed=false is never in the result.         *)
C23_SubscribedByMode ==
    db_last.op = "get_users_by_notification_mode" =>
        LET mode == db_last.preferences.notification_mode
            wanted == {k \in DOMAIN db_users :
                          /\ "subscribed" \in DOMAIN db_users[k]
                          /\ db_users[k].subscribed
                          /\ "notification_mode" \in DOMAIN db_users[k]
                          /\ db_users[k].notification_mode = mode}
        IN  /\ DOMAIN db_last.result = {IntKey(k) : k \in wanted}
            /\ \A k \in wanted : db_last.result[IntKey(k)] = db_users[k]

\* the document holds exactly the records of the registry: the same chats,
\* and for each the same flag, filters, mode (by value) and stamp
Holds(doc, ents) ==
    /\ {doc[i].chat_id : i \in 1..Len(doc)} = Keys(ents)
    /\ \A i \in 1..Len(doc) :
          doc[i].chat_id \in Keys(ents) =>
              LET e == RecordOf(ents, doc[i].chat_id)
              IN  /\ doc[i].subscribed = e.subscribed
                  /\ doc[i].filters = e.filters
                  /\ doc[i].notification_mode =
                        (IF e.notification_mode \in NotificationMode
                         THEN ModeValue(e.notification_mode) ELSE e.notification_mode)
                  /\ doc[i].last_notification.t = e.last_notification.t
                  /\ (doc[i].last_notification.type = "None")
                        <=> (e.last_notification.type = "None")

(* C24: when a registry command (/start, /subscribe, /unsubscribe, /stop)   *)
(* that changed the registry returns, users.json holds the registry as it   *)
(* is in memory.                                                            *)
C24_WriteThrough ==
    [][(commands' = commands + 1 /\ entries' # entries)
          => Holds(users_json', entries')]_vars

(* C25: construction of a Database always completes: a document that cannot *)
(* be read leaves its own store empty, and a seen_listings.json that cannot *)
(* be read does not discard the registry read from a users.json that can.   *)
C25_LoadFailureContained ==
    db_last.op = "__init__" =>
        /\ db_seen_doc.state = "corrupt" => db_seen = {}
        /\ db_users_doc.state = "corrupt" => db_users = EmptyDict
        /\ db_users_doc.state = "valid" => db_users = db_users_doc.users

\* the last call saved and one of its two writes raised
WriteFailed == db_last.uw \in {"unopened", "truncated"} \/ db_last.w \in {"unopened", "truncated"}

(* C26: when a write of _save_data raises during mark_seen(id) or during    *)
(* add_user, update_user or delete_user, the call still returns with its    *)
(* change in memory: is_seen(id) is true, respectively the registry is the  *)
(* one the call built.                                                      *)
C26_PersistFailureKeepsMutation ==
    WriteFailed =>
        /\ db_last.op = "mark_seen" => is_seen(db_seen, db_last.id)
        /\ db_last.op = "add_user" =>
              db_users = Added(db_last.users, db_last.id, db_last.preferences)
        /\ db_last.op = "update_user" =>
              db_users = Updated(db_last.users, db_last.id, db_last.preferences)
        /\ db_last.op = "delete_user" => db_users = Deleted(db_last.users, db_last.id)

-----------------------------------------------------------------------------
(* Commands between the sends of a dispatch *)

\* the chats coroutine t has called send_message for from _send_notifications
Served(t) == {m.to : m \in {x \in Messages(t) : x.kind = "listing"}}

(* C27: when commands of chats the dispatch is not serving run while        *)
(* _send_notifications is suspended at a send, and no send fails, the       *)
(* cycle still returns the listings it marked seen, every other subscriber  *)
(* with a matching listing is still served, and the stamps of the dispatch  *)
(* reach users.json.                                                        *)
C27_MutationDoesNotDisturb ==
    \A t \in Tasks :
        (/\ task[t].pc \in {"summary", "done"}
         /\ failures = 0
         /\ task[t].touched \cap Served(t) = {})
            => /\ task[t].ret = task[t].new_listings
               /\ \A c \in Sub0(t) \ task[t].touched :
                     (\E l \in Range(task[t].new_listings) :
                           Satisfies(l, FiltersOf(task[t].reg0, c)))
                         => /\ c \in Served(t)
                            /\ (~SaveRaises(task[t].reg0) /\ c \in Keys(entries))
                                  => Persisted(c)

\* coroutine t calls send_message in this step
Sends(t) ==
    /\ task'[t].pc \in {"send", "summary"}
    /\ task'[t].outbox # task[t].outbox

(* C28: every send_message call of a dispatch or a summary goes to a chat   *)
(* that has a record with subscribed=true at the time of the call: a chat   *)
(* whose /unsubscribe or /stop has completed is sent nothing until it       *)
(* subscribes or starts again, also by a dispatch that is suspended between *)
(* two sends to that chat.                                                  *)
C28_NoSendAfterUnsubscribe ==
    [][\A t \in Tasks :
          Sends(t) => task'[t].outbox[Len(task'[t].outbox)].to \in Subscribed(entries)]_vars

(* C29: when the process restarts over a users.json that _save_users wrote  *)
(* from the registry in memory, _load_users gives every chat a record with  *)
(* the notification_mode, filters, subscribed flag and last_notification it *)
(* had, the daily and weekly loops select the same chats as before, and     *)
(* _save_users can write the loaded registry.                               *)
C29_RegistryRoundTrip ==
    [][(Restart /\ ~SaveRaises(entries) /\ Holds(users_json, entries))
          => /\ Keys(entries') = Keys(entries)
             /\ \A c \in Keys(entries) :
                   /\ RecordOf(entries', c) = RecordOf(entries, c)
                   /\ \A want \in {DAILY, WEEKLY} :
                         Skipped(RecordOf(entries', c), want)
                            <=> Skipped(RecordOf(entries, c), want)
             /\ ~SaveRaises(entries')]_vars

=============================================================================
